---- MODULE Spec2Model ----
(***************************************************************************)
(* A model of unit_scaling/analysis.py: batch fabrication (_example_seqs,  *)
(* _create_batch), graph flattening (graph_to_dataframe), the plot         *)
(* renderer (plot) and the orchestration entry point (visualiser).         *)
(*                                                                         *)
(* x-values are held in units of 2^-14, so the four reference lines of     *)
(* plot are the integers 1, 2^7, 240 * 2^14 and 2^30.                      *)
(***************************************************************************)
EXTENDS Integers, Sequences, FiniteSets, TLC

VARIABLES
    pc,        \* position of the running call
    err,       \* the exception the call ended with, "none" while there is none
    g,         \* the Graph passed to graph_to_dataframe / plot
    opts,      \* plot's keyword arguments
    df,        \* the DataFrame built by graph_to_dataframe (a sequence of rows)
    loc,       \* plot's locals: full_metric, the pruned graph, plot_height, node_idxs, min/max_scale
    chart,     \* the process-global pyplot state: figures, x-limits, what was drawn, warnings
    ret,       \* whether the call returned a value to its caller
    corpus,    \* the streamed dataset: a sequence of texts
    cargs,     \* the call's arguments: batch_size, min_seq_len, seq_len, seed, shuffle_buffer_size, backward
    tokenizer, \* the tokenizer object: its pad_token
    seqs,      \* the texts returned by _example_seqs
    batch,     \* the (input_idxs, attn_mask, labels) returned by _create_batch
    model,     \* visualiser's model: its interface, its device, whether it is tracked
    vlog       \* the order in which visualiser's collaborators were called

vars == <<pc, err, g, opts, df, loc, chart, ret, corpus, cargs, tokenizer, seqs,
          batch, model, vlog>>

(***************************************************************************)
(* Bounds                                                                  *)
(***************************************************************************)
\* the most nodes a graph has besides its "output" node
MaxNodes == 2
\* the most texts the streamed corpus holds
MaxCorpus == 3
\* the most characters a text has
MaxTextLen == 4
\* the largest batch_size asked for
MaxBatchSize == 2
\* the largest seq_len asked for
MaxSeqLen == 2

(***************************************************************************)
(* Values: Python floats / ints, float("nan"), float("inf") and None       *)
(***************************************************************************)
None == [k |-> "none", v |-> 0]
Num(n) == [k |-> "num", v |-> n]
NaN == [k |-> "nan", v |-> 0]
Inf == [k |-> "inf", v |-> 0]

\* math.isnan
isnan(x) == x.k = "nan"
\* Python's x == 0 (False for nan and inf)
IsZero(x) == x.k = "num" /\ x.v = 0

Range(s) == {s[i] : i \in 1..Len(s)}
IndexOf(s, e) == CHOOSE i \in 1..Len(s) : s[i] = e

(***************************************************************************)
(* unit_scaling.transforms.Metrics                                         *)
(***************************************************************************)
\* Metrics.names(): the fields of Metrics.Data
MetricsNames == <<"mean_abs", "abs_mean", "std", "abs_max", "abs_min", "numel">>

\* Metrics.full_names(): the display name of each field, in the same order
MetricsFullNames ==
    <<"mean absolute value", "absolute mean value", "standard deviation",
      "absolute max value", "absolute min value", "number of elements">>

\* A Metrics.Data record
Data(ma, am, sd, mx, mn, ne) ==
    [mean_abs |-> ma, abs_mean |-> am, std |-> sd, abs_max |-> mx, abs_min |-> mn,
     numel |-> ne]

DNormal == Data(Num(16384), Num(4096), Num(20480), Num(65536), Num(16), Num(4096))
DSmall == Data(Num(8192), Num(2048), Num(10240), Num(32768), Num(8), Num(128))
DZero == Data(Num(0), Num(0), Num(0), Num(0), Num(0), Num(16))
DInf == Data(Inf, Inf, NaN, Inf, Num(1), Num(16))

\* getattr(metrics, direction, None): Metrics.fwd / Metrics.bwd
Directional(n, direction) == IF direction = "fwd" THEN n.fwd ELSE n.bwd

\* getattr(data, name) succeeds only for a field of Metrics.Data
HasAttr(data, name) == name \in DOMAIN data

(***************************************************************************)
(* torch.fx graphs annotated by track_scales                               *)
(***************************************************************************)
\* fx gives every node a unique name; the last node is the one named "output"
NodeNames == <<"x", "relu", "linear", "sum_1", "view">>

\* an argument of a node that is not itself a Node (a number, a shape)
ConstArg == "#const"

\* what track_scales can record for one node: weight flag, metrics, clean name,
\* and the two facts the pruning transforms read (float output, same scale as input)
NodeKinds ==
    { \* an activation
      [requires_grad |-> FALSE, fwd |-> DNormal, bwd |-> DSmall, is_float |-> TRUE,
       same_scale |-> FALSE, clean |-> ""],
      \* a weight whose gradient vanished
      [requires_grad |-> TRUE, fwd |-> DSmall, bwd |-> DZero, is_float |-> TRUE,
       same_scale |-> FALSE, clean |-> "self_linear_weight"],
      \* a view of its input that no gradient reached
      [requires_grad |-> FALSE, fwd |-> DNormal, bwd |-> None, is_float |-> TRUE,
       same_scale |-> TRUE, clean |-> ""],
      \* an all-zero tensor whose gradient overflowed
      [requires_grad |-> FALSE, fwd |-> DZero, bwd |-> DInf, is_float |-> TRUE,
       same_scale |-> FALSE, clean |-> ""],
      \* an integer tensor
      [requires_grad |-> FALSE, fwd |-> DSmall, bwd |-> None, is_float |-> FALSE,
       same_scale |-> FALSE, clean |-> ""] }

MkNode(name, kind, args) ==
    [name |-> name,
     clean_name |-> IF kind.clean = "" THEN name ELSE kind.clean,
     requires_grad |-> kind.requires_grad,
     fwd |-> kind.fwd, bwd |-> kind.bwd,
     is_float |-> kind.is_float, same_scale |-> kind.same_scale,
     args |-> args]

\* the argument lists node i may have: a constant, its predecessor, or its two predecessors
ArgChoices(i) ==
    IF i = 1 THEN {<<>>}
    ELSE {<<ConstArg>>, <<NodeNames[i - 1], ConstArg>>}
         \cup (IF i > 2 THEN {<<NodeNames[i - 2], NodeNames[i - 1]>>} ELSE {})

OutputNode(k) ==
    [name |-> "output", clean_name |-> "output", requires_grad |-> FALSE,
     fwd |-> DNormal, bwd |-> None, is_float |-> TRUE, same_scale |-> FALSE,
     args |-> IF k = 0 THEN <<>> ELSE <<NodeNames[k]>>]

\* the graphs with k nodes followed by the "output" node
GraphsOf(k) ==
    { [i \in 1..(k + 1) |->
          IF i = k + 1 THEN OutputNode(k) ELSE MkNode(NodeNames[i], kinds[i], args[i])] :
      kinds \in [1..k -> NodeKinds],
      args \in {a \in [1..k -> UNION {ArgChoices(i) : i \in 1..k}] :
                   \A i \in 1..k : a[i] \in ArgChoices(i)} }

Graphs == UNION {GraphsOf(k) : k \in 0..MaxNodes}

(***************************************************************************)
(* graph_to_dataframe                                                      *)
(***************************************************************************)
DfColumns == <<"layer", "weight tensor", "direction", "tensor type">> \o MetricsFullNames

Directions == <<"fwd", "bwd">>

TensorTypePrefixSwapped(direction) == IF direction = "fwd" THEN "grad_" ELSE ""

TensorTypePrefix(direction) == IF direction = "fwd" THEN "" ELSE "grad_"

TensorTypeSuffix(n) == IF n.requires_grad THEN "w" ELSE "x"

\* the value appended for metric m: None when the node has no metrics for the direction
MetricCell(n, direction, m) ==
    IF Directional(n, direction) # None THEN Directional(n, direction)[m] ELSE None

RowData(n, direction) ==
    <<n.clean_name, n.requires_grad, direction,
      TensorTypePrefix(direction) \o TensorTypeSuffix(n)>>
    \o [i \in 1..Len(MetricsNames) |-> MetricCell(n, direction, MetricsNames[i])]

SkipNodeNever(n) == FALSE

\* whether the loop over g.nodes skips the node
SkipNode(n) == n.name = "output"

NodeRows(n) ==
    IF SkipNode(n) THEN <<>>
    ELSE [d \in 1..Len(Directions) |-> RowData(n, Directions[d])]

RECURSIVE graph_to_dataframe(_)
graph_to_dataframe(gr) ==
    IF gr = <<>> THEN <<>> ELSE NodeRows(Head(gr)) \o graph_to_dataframe(Tail(gr))

\* df[column] of one row
Col(row, column) == row[IndexOf(DfColumns, column)]

(***************************************************************************)
(* Texts, the streamed corpus and the tokenizer (external collaborators)   *)
(***************************************************************************)
\* a text of len characters; its characters tell the texts and the positions apart
MkText(id, len) == [i \in 1..len |-> 10 * id + i]

Corpora(lens) ==
    UNION { {[j \in 1..n |-> MkText(j, l[j])] : l \in [1..n -> lens]} : n \in 0..MaxCorpus }

Seeds == {1472, 7}

BufferSizes == {2, 10000}

\* the generator that dataset.shuffle seeds: a linear congruential step
RngNext(s) == (5 * s + 3) % 16

\* the buffer left when the stream ends is itself shuffled: here, rotated
FinalShuffle(buffer, rng) ==
    IF buffer = <<>> THEN <<>>
    ELSE LET k == rng % Len(buffer)
         IN  SubSeq(buffer, k + 1, Len(buffer)) \o SubSeq(buffer, 1, k)

\* dataset.shuffle(seed, buffer_size): fill a buffer; once full, each arriving item
\* evicts a pseudo-randomly chosen one, which is yielded
RECURSIVE ShuffleStream(_, _, _, _)
ShuffleStream(stream, buffer, rng, size) ==
    IF stream = <<>> THEN FinalShuffle(buffer, rng)
    ELSE IF Len(buffer) = size
         THEN LET i == (rng % size) + 1
              IN  <<buffer[i]>> \o ShuffleStream(Tail(stream),
                                      [buffer EXCEPT ![i] = Head(stream)], RngNext(rng), size)
         ELSE ShuffleStream(Tail(stream), Append(buffer, Head(stream)), rng, size)

Shuffle(dataset, seed, buffer_size) == ShuffleStream(dataset, <<>>, seed % 16, buffer_size)

\* dataset.take(n)
Take(dataset, n) == SubSeq(dataset, 1, IF n < Len(dataset) THEN n ELSE Len(dataset))

\* the tokenizer merges characters: one token per pair of characters
Tokenize(text) ==
    [j \in 1..((Len(text) + 1) \div 2) |->
        IF 2 * j <= Len(text) THEN 100 * text[2 * j - 1] + text[2 * j]
        ELSE 100 * text[2 * j - 1]]

EosToken == "<eos>"
\* tokenizer.pad_token is None
NoToken == "None"
PadTokens == {NoToken, "<pad>"}
TokenId(token) == IF token = EosToken THEN 0 ELSE 1

Max(S) == CHOOSE m \in S : \A o \in S : o <= m
Min(S) == CHOOSE m \in S : \A o \in S : m <= o

\* Python's s[a:b] on a sequence (0-based, clipped to the sequence)
Slice(s, a, b) == SubSeq(s, a + 1, IF b < Len(s) THEN b ELSE Len(s))

\* tokenizer(seqs, max_length, truncation=True, padding=True): every text is cut to
\* max_length tokens and then padded to the longest text of the batch
TokenizerCall(tok, texts, max_length) ==
    LET cut == [r \in 1..Len(texts) |-> Slice(Tokenize(texts[r]), 0, max_length)]
        longest == Max({Len(cut[r]) : r \in 1..Len(texts)})
    IN  [input_ids |->
            [r \in 1..Len(texts) |->
                [i \in 1..longest |->
                    IF i <= Len(cut[r]) THEN cut[r][i] ELSE TokenId(tok.pad_token)]],
         attention_mask |->
            [r \in 1..Len(texts) |->
                [i \in 1..longest |-> IF i <= Len(cut[r]) THEN 1 ELSE 0]]]

(***************************************************************************)
(* _example_seqs                                                           *)
(***************************************************************************)
\* the predicate given to shuffled_dataset.filter
KeepText(text, min_seq_len) == Len(text) > min_seq_len

RECURSIVE Filter(_, _)
Filter(dataset, min_seq_len) ==
    IF dataset = <<>> THEN <<>>
    ELSE (IF KeepText(Head(dataset), min_seq_len) THEN <<Head(dataset)>> ELSE <<>>)
         \o Filter(Tail(dataset), min_seq_len)

example_seqs(dataset, batch_size, min_seq_len, seed, shuffle_buffer_size) ==
    Take(Filter(Shuffle(dataset, seed, shuffle_buffer_size), min_seq_len), batch_size)

(***************************************************************************)
(* _create_batch                                                           *)
(***************************************************************************)
\* lines 57-58: the eos token stands in for a missing pad token
WithPadToken(tok) ==
    IF tok.pad_token = NoToken THEN [tok EXCEPT !.pad_token = EosToken] ELSE tok

create_batch(tok, texts, seq_len) ==
    LET out == TokenizerCall(WithPadToken(tok), texts, seq_len + 1)
    IN  [input_idxs |-> [r \in 1..Len(texts) |-> Slice(out.input_ids[r], 0, seq_len)],
         attn_mask |-> [r \in 1..Len(texts) |-> Slice(out.attention_mask[r], 0, seq_len)],
         labels |-> [r \in 1..Len(texts) |-> Slice(out.input_ids[r], 1, seq_len + 1)]]

\* tensor.shape of a two-dimensional tensor
Shape(t) == <<Len(t), IF t = <<>> THEN 0 ELSE Len(t[1])>>

(***************************************************************************)
(* The pruning transforms (unit_scaling.transforms)                        *)
(***************************************************************************)
IsNodeArg(arg) == arg # ConstArg

RECURSIVE NodeArgs(_)
NodeArgs(args) ==
    IF args = <<>> THEN <<>>
    ELSE (IF IsNodeArg(Head(args)) THEN <<Head(args)>> ELSE <<>>) \o NodeArgs(Tail(args))

RECURSIVE ReplaceArg(_, _, _)
ReplaceArg(args, name, repl) ==
    IF args = <<>> THEN <<>>
    ELSE (IF Head(args) = name THEN repl ELSE <<Head(args)>>)
         \o ReplaceArg(Tail(args), name, repl)

\* the graph without its i-th node, whose users take repl in its place
RemoveNode(gr, i, repl) ==
    [j \in 1..(Len(gr) - 1) |->
        LET n == IF j < i THEN gr[j] ELSE gr[j + 1]
        IN  [n EXCEPT !.args = ReplaceArg(n.args, gr[i].name, repl)]]

NonFloat(n) == n.name # "output" /\ ~n.is_float

RECURSIVE prune_non_float_tensors(_)
prune_non_float_tensors(gr) ==
    IF \E i \in 1..Len(gr) : NonFloat(gr[i])
    THEN LET i == Min({j \in 1..Len(gr) : NonFloat(gr[j])})
         IN  prune_non_float_tensors(RemoveNode(gr, i, <<>>))
    ELSE gr

\* a node that hands on its input with the scale unchanged (a view, a reshape)
SameScale(n) == n.name # "output" /\ n.same_scale /\ NodeArgs(n.args) # <<>>

RECURSIVE prune_same_scale_tensors(_)
prune_same_scale_tensors(gr) ==
    IF \E i \in 1..Len(gr) : SameScale(gr[i])
    THEN LET i == Min({j \in 1..Len(gr) : SameScale(gr[j])})
         IN  prune_same_scale_tensors(RemoveNode(gr, i, <<Head(NodeArgs(gr[i].args))>>))
    ELSE gr

(***************************************************************************)
(* plot: validation (lines 221-225)                                        *)
(***************************************************************************)
MetricRecognisedAny(metric) == TRUE

\* the assertion's condition: metric in Metrics.names() + Metrics.full_names()
MetricRecognised(metric) == metric \in Range(MetricsNames) \cup Range(MetricsFullNames)

\* Metrics.get_full_name(metric): the display name of a short name. What it does with a
\* name that is already a display name is not fixed here: it hands it back or raises.
GetFullName(metric) ==
    IF metric \in Range(MetricsNames)
    THEN {MetricsFullNames[IndexOf(MetricsNames, metric)]}
    ELSE IF metric \in Range(MetricsFullNames) THEN {metric, "KeyError"}
    ELSE {"KeyError"}

(***************************************************************************)
(* plot: layout (lines 227-349)                                            *)
(***************************************************************************)
\* the four reference lines, in units of 2^-14
FP16_MIN == 1
FP8_E4_MIN == 128
FP8_E4_MAX == 3932160
FP16_MAX == 1073741824

ReferenceLines == {FP16_MIN, FP8_E4_MIN, FP8_E4_MAX, FP16_MAX}

Pruned(gr, o) ==
    IF o.prune_same_scale THEN prune_same_scale_tensors(prune_non_float_tensors(gr))
    ELSE prune_non_float_tensors(gr)

PlotHeightRows(d) == Len(d)

\* len(df["layer"].unique())
PlotHeight(d) == Cardinality({Col(d[r], "layer") : r \in 1..Len(d)})

\* the clean names of the nodes other than "output", each once, in first-seen order
RECURSIVE LayerOrder(_, _)
LayerOrder(gr, seen) ==
    IF gr = <<>> THEN seen
    ELSE LET n == Head(gr)
         IN  IF n.name # "output" /\ n.clean_name \notin Range(seen)
             THEN LayerOrder(Tail(gr), Append(seen, n.clean_name))
             ELSE LayerOrder(Tail(gr), seen)

\* node_idxs: clean name -> row index, counted from 0
NodeIdxs(gr) ==
    LET order == LayerOrder(gr, <<>>)
    IN  [name \in Range(order) |-> IndexOf(order, name) - 1]

\* plt.gca().get_xlim() once the series and the reference lines are drawn: the axes
\* span the positive finite x-values in view (a log axis shows no others)
AutoXlim(d, full_metric) ==
    LET xs == {Col(d[r], full_metric) : r \in 1..Len(d)}
        shown == {x.v : x \in {y \in xs : y.k = "num" /\ y.v > 0}} \cup ReferenceLines
    IN  <<Num(Min(shown)), Num(Max(shown))>>

\* min_scale, max_scale (lines 334-338)
Scales(auto, o) ==
    <<IF o.xmin # None THEN o.xmin ELSE auto[1], IF o.xmax # None THEN o.xmax ELSE auto[2]>>

(***************************************************************************)
(* plot: draw_arrow and draw_error_bar (lines 351-425)                     *)
(***************************************************************************)
NodeByName(gr, name) == gr[CHOOSE i \in 1..Len(gr) : gr[i].name = name]

\* getattr(getattr(metrics, direction), name)
ReadError(n, direction, name) ==
    IF Directional(n, direction) = None THEN "AttributeError(NoneType)"
    ELSE IF ~HasAttr(Directional(n, direction), name) THEN "AttributeError(Data)"
    ELSE "none"

NoDraw == [err |-> "none", drawn |-> <<>>, warned |-> <<>>]

BwdMissingConsumerOnly(node_a, node_b) == node_a.bwd = None

\* lines 384-386: either end of the arrow lacks backward metrics
BwdMissing(node_a, node_b) == node_a.bwd = None \/ node_b.bwd = None

ArrowHiddenNever(annotation, o) == FALSE

\* line 415: the arrow is left out
ArrowHidden(annotation, o) == annotation = "0" /\ ~o.show_zero_tensors

ArrowEndsUnswapped(direction, a, b) ==
    [color |-> IF direction = "fwd" THEN 0 ELSE 1, xy |-> a, xytext |-> b]

\* lines 408-413 and 422-423: the colour of the arrow, the point its head is at (xy) and
\* the point it starts from (xytext); the backward arrow has its two ends exchanged
ArrowEnds(direction, a, b) ==
    IF direction = "fwd" THEN [color |-> 0, xy |-> a, xytext |-> b]
    ELSE [color |-> 1, xy |-> b, xytext |-> a]

draw_arrow(node_a, node_b, direction, l, o) ==
    IF direction = "bwd" /\ BwdMissing(node_a, node_b) THEN NoDraw
    ELSE IF ReadError(node_a, direction, o.metric) # "none"
    THEN [NoDraw EXCEPT !.err = ReadError(node_a, direction, o.metric)]
    ELSE IF ReadError(node_b, direction, o.metric) # "none"
    THEN [NoDraw EXCEPT !.err = ReadError(node_b, direction, o.metric)]
    ELSE
    LET a_x0 == Directional(node_a, direction)[o.metric]
        b_x0 == Directional(node_b, direction)[o.metric]
        a_y == l.node_idxs[node_a.clean_name]
        b_y == l.node_idxs[node_b.clean_name]
        \* lines 395-399
        a_x1 == IF IsZero(a_x0) \/ isnan(a_x0) THEN l.min_scale ELSE a_x0
        warn_a == isnan(a_x1)
        a_x == IF warn_a THEN l.min_scale ELSE a_x1
        \* lines 400-406
        b_x1 == IF IsZero(b_x0) THEN l.min_scale ELSE b_x0
        warn_b == isnan(b_x1)
        b_x == IF warn_b THEN l.min_scale ELSE b_x1
        annotation == IF IsZero(b_x0) \/ warn_b THEN "0" ELSE ""
        warned == (IF warn_a THEN <<node_a.clean_name>> ELSE <<>>)
                  \o (IF warn_b THEN <<node_b.clean_name>> ELSE <<>>)
        ends == ArrowEnds(direction, <<a_x, a_y>>, <<b_x, b_y>>)
    IN  IF ArrowHidden(annotation, o)
        THEN [err |-> "none", drawn |-> <<>>, warned |-> warned]
        ELSE [err |-> "none",
              drawn |-> << [consumer |-> node_a.name, operand |-> node_b.name,
                            direction |-> direction, text |-> annotation,
                            color |-> ends.color, xy |-> ends.xy,
                            xytext |-> ends.xytext] >>,
              warned |-> warned]

ErrorBarSkippedNever(n, direction) == FALSE

\* line 353
ErrorBarSkipped(n, direction) == direction = "bwd" /\ n.bwd = None

\* the bar drawn for one node and direction; y is held in tenths of a row
draw_error_bar(n, direction, l) ==
    IF ErrorBarSkipped(n, direction) THEN NoDraw
    ELSE IF ReadError(n, direction, "abs_min") # "none"
    THEN [NoDraw EXCEPT !.err = ReadError(n, direction, "abs_min")]
    ELSE [err |-> "none",
          drawn |-> << [node |-> n.name, direction |-> direction,
                        x1 |-> Directional(n, direction).abs_min,
                        x2 |-> Directional(n, direction).abs_max,
                        y10 |-> 10 * l.node_idxs[n.clean_name]
                                + (IF direction = "fwd" THEN -1 ELSE 1),
                        color |-> IF direction = "fwd" THEN 0 ELSE 1] >>,
          warned |-> <<>>]

(***************************************************************************)
(* plot: the two drawing loops (lines 427-439)                             *)
(***************************************************************************)
\* for arg in n.args: if isinstance(arg, Node)
ArrowJobsOf(n, direction) ==
    LET as == NodeArgs(n.args)
    IN  [i \in 1..Len(as) |-> [n |-> n.name, arg |-> as[i], direction |-> direction]]

RECURSIVE ArrowJobs(_)
ArrowJobs(gr) ==
    IF gr = <<>> THEN <<>>
    ELSE (IF Head(gr).name # "output"
          THEN ArrowJobsOf(Head(gr), "fwd") \o ArrowJobsOf(Head(gr), "bwd")
          ELSE <<>>)
         \o ArrowJobs(Tail(gr))

RECURSIVE BarJobs(_)
BarJobs(gr) ==
    IF gr = <<>> THEN <<>>
    ELSE (IF Head(gr).name # "output"
          THEN <<[n |-> Head(gr).name, direction |-> "fwd"],
                 [n |-> Head(gr).name, direction |-> "bwd"]>>
          ELSE <<>>)
         \o BarJobs(Tail(gr))

\* the arrows drawn, in order, until one raises
RECURSIVE DrawArrows(_, _, _, _)
DrawArrows(jobs, l, o, acc) ==
    IF jobs = <<>> \/ acc.err # "none" THEN acc
    ELSE LET j == Head(jobs)
             r == draw_arrow(NodeByName(l.g, j.n), NodeByName(l.g, j.arg), j.direction, l, o)
         IN  DrawArrows(Tail(jobs), l, o,
                        [err |-> r.err, drawn |-> acc.drawn \o r.drawn,
                         warned |-> acc.warned \o r.warned])

RECURSIVE DrawErrorBars(_, _, _)
DrawErrorBars(jobs, l, acc) ==
    IF jobs = <<>> \/ acc.err # "none" THEN acc
    ELSE LET j == Head(jobs)
             r == draw_error_bar(NodeByName(l.g, j.n), j.direction, l)
         IN  DrawErrorBars(Tail(jobs), l,
                           [err |-> r.err, drawn |-> acc.drawn \o r.drawn,
                            warned |-> acc.warned])

ArrowsOf(l, o) == IF o.show_arrows THEN DrawArrows(ArrowJobs(l.g), l, o, NoDraw) ELSE NoDraw

BarsOf(l, o) == IF o.show_error_bars THEN DrawErrorBars(BarJobs(l.g), l, NoDraw) ELSE NoDraw

\* line 379: every bar drawn ends by setting the x-limits
XlimAfterBars(xlim, bars, l) == IF bars = <<>> THEN xlim ELSE <<l.min_scale, l.max_scale>>

\* the state plot has built when its layout is done (lines 227-349)
LayoutOf(gr, o, full_metric, l, c) ==
    LET pg == Pruned(gr, o)
        d == graph_to_dataframe(pg)
        auto == AutoXlim(d, full_metric)
        sc == Scales(auto, o)
    IN  [df |-> d,
         loc |-> [l EXCEPT !.g = pg, !.plot_height = PlotHeight(d),
                           !.node_idxs = NodeIdxs(pg),
                           !.min_scale = sc[1], !.max_scale = sc[2]],
         chart |-> [c EXCEPT !.figs = @ + 1, !.xcolumn = full_metric, !.xlim = auto]]

\* what the two drawing loops leave on the chart, and the exception that ended them
DrawOf(l, o, c) ==
    LET as == ArrowsOf(l, o)
        bs == IF as.err = "none" THEN BarsOf(l, o) ELSE NoDraw
    IN  [err |-> IF as.err # "none" THEN as.err ELSE bs.err,
         chart |-> [c EXCEPT !.arrows = as.drawn, !.warnings = as.warned,
                             !.bars = bs.drawn,
                             !.xlim = XlimAfterBars(@, bs.drawn, l)]]

(***************************************************************************)
(* Initial values of the parts of the state a call does not use            *)
(***************************************************************************)
NoOpts ==
    [metric |-> "mean_abs", prune_same_scale |-> TRUE, show_arrows |-> TRUE,
     show_error_bars |-> TRUE, show_zero_tensors |-> FALSE, xmin |-> None, xmax |-> None]

NoLoc ==
    [full_metric |-> "", g |-> <<>>, plot_height |-> 0, node_idxs |-> <<>>,
     min_scale |-> None, max_scale |-> None]

NoChart ==
    [figs |-> 0, xcolumn |-> "", xlim |-> <<None, None>>, arrows |-> <<>>, bars |-> <<>>,
     warnings |-> <<>>]

NoCargs ==
    [batch_size |-> 0, min_seq_len |-> 0, seq_len |-> 0, seed |-> 0,
     shuffle_buffer_size |-> 1, backward |-> FALSE]

NoBatch == [input_idxs |-> <<>>, attn_mask |-> <<>>, labels |-> <<>>]

NoModel ==
    [interface |-> "ok", device |-> "cpu", tracked |-> FALSE, graph |-> <<>>,
     fwd_runs |-> 0, fwd_args |-> <<>>, bwd_runs |-> 0]

PlotIdle ==
    /\ opts = NoOpts /\ loc = NoLoc /\ chart = NoChart

BatchIdle ==
    /\ corpus = <<>> /\ cargs = NoCargs /\ tokenizer = [pad_token |-> NoToken]
    /\ seqs = <<>> /\ batch = NoBatch

VisIdle ==
    /\ model = NoModel /\ vlog = <<>>

(***************************************************************************)
(* A call of graph_to_dataframe(g)                                         *)
(***************************************************************************)
InitFlatten ==
    /\ pc = "graph_to_dataframe" /\ err = "none" /\ ret = FALSE
    /\ g \in Graphs /\ df = <<>>
    /\ PlotIdle /\ BatchIdle /\ VisIdle

Flatten ==
    /\ pc = "graph_to_dataframe"
    /\ df' = graph_to_dataframe(g)
    /\ ret' = TRUE
    /\ pc' = "done"
    /\ UNCHANGED <<err, g, opts, loc, chart, corpus, cargs, tokenizer, seqs, batch,
                   model, vlog>>

NextFlatten == Flatten

SpecFlatten == InitFlatten /\ [][NextFlatten]_vars

(***************************************************************************)
(* A call of _example_seqs(batch_size, min_seq_len, seed=..., ...)         *)
(***************************************************************************)
FlattenIdle == g = <<>> /\ df = <<>>

InitSeqs ==
    /\ pc = "_example_seqs" /\ err = "none" /\ ret = FALSE
    /\ corpus \in Corpora(1..MaxTextLen)
    /\ cargs \in [batch_size : 0..MaxBatchSize, min_seq_len : 1..MaxTextLen,
                  seq_len : {0}, seed : Seeds, shuffle_buffer_size : BufferSizes,
                  backward : {FALSE}]
    /\ tokenizer = [pad_token |-> NoToken] /\ seqs = <<>> /\ batch = NoBatch
    /\ FlattenIdle /\ PlotIdle /\ VisIdle

ExampleSeqs ==
    /\ pc = "_example_seqs"
    /\ seqs' = example_seqs(corpus, cargs.batch_size, cargs.min_seq_len,
                            cargs.seed, cargs.shuffle_buffer_size)
    /\ ret' = TRUE
    /\ pc' = "done"
    /\ UNCHANGED <<err, g, opts, df, loc, chart, corpus, cargs, tokenizer, batch,
                   model, vlog>>

NextSeqs == ExampleSeqs

SpecSeqs == InitSeqs /\ [][NextSeqs]_vars

(***************************************************************************)
(* A call of _create_batch(tokenizer, seqs, seq_len)                       *)
(***************************************************************************)
\* the lists of at most MaxBatchSize texts
TextLists == {Take(c, MaxBatchSize) : c \in Corpora(1..MaxTextLen)}

InitBatch ==
    /\ pc = "_create_batch" /\ err = "none" /\ ret = FALSE
    /\ corpus = <<>>
    /\ seqs \in TextLists
    /\ cargs \in [batch_size : {0}, min_seq_len : {0}, seq_len : 1..MaxSeqLen,
                  seed : {0}, shuffle_buffer_size : {1}, backward : {FALSE}]
    /\ tokenizer \in [pad_token : PadTokens]
    /\ batch = NoBatch
    /\ FlattenIdle /\ PlotIdle /\ VisIdle

\* the tokenizer is given at least one text
CreateBatch ==
    /\ pc = "_create_batch"
    /\ seqs # <<>>
    /\ tokenizer' = WithPadToken(tokenizer)
    /\ batch' = create_batch(tokenizer, seqs, cargs.seq_len)
    /\ ret' = TRUE
    /\ pc' = "done"
    /\ UNCHANGED <<err, g, opts, df, loc, chart, corpus, cargs, seqs, model, vlog>>

\* the tokenizer refuses an empty list of texts: its failure propagates
CreateBatchEmpty ==
    /\ pc = "_create_batch"
    /\ seqs = <<>>
    /\ tokenizer' = WithPadToken(tokenizer)
    /\ err' = "TokenizerError"
    /\ pc' = "raised"
    /\ UNCHANGED <<g, opts, df, loc, chart, ret, corpus, cargs, seqs, batch, model,
                   vlog>>

NextBatch == CreateBatch \/ CreateBatchEmpty

SpecBatch == InitBatch /\ [][NextBatch]_vars

(***************************************************************************)
(* A call of plot(g, **opts)                                               *)
(***************************************************************************)
MetricInputs == {"mean_abs", "std", "mean absolute value", "scale"}

XminInputs == {None, Num(64)}

XmaxInputs == {None, Num(16777216)}

PlotOptions ==
    [metric : MetricInputs, prune_same_scale : BOOLEAN, show_arrows : BOOLEAN,
     show_error_bars : BOOLEAN, show_zero_tensors : BOOLEAN, xmin : XminInputs,
     xmax : XmaxInputs]

InitPlot ==
    /\ pc = "plot" /\ err = "none" /\ ret = FALSE
    /\ g \in Graphs /\ df = <<>>
    /\ opts \in PlotOptions
    /\ loc = NoLoc /\ chart = NoChart
    /\ BatchIdle /\ VisIdle

Raise(e) == err' = e /\ pc' = "raised"

\* lines 221-224: the assertion fails
PlotAssertFails ==
    /\ pc = "plot"
    /\ ~MetricRecognised(opts.metric)
    /\ Raise("AssertionError")
    /\ UNCHANGED <<g, opts, df, loc, chart, ret, corpus, cargs, tokenizer, seqs,
                   batch, model, vlog>>

\* line 225: full_metric = Metrics.get_full_name(metric)
PlotFullName ==
    /\ pc = "plot"
    /\ MetricRecognised(opts.metric)
    /\ \E full \in GetFullName(opts.metric) :
          IF full = "KeyError"
          THEN Raise("KeyError") /\ loc' = loc
          ELSE /\ loc' = [loc EXCEPT !.full_metric = full]
               /\ pc' = "plot_layout"
               /\ err' = err
    /\ UNCHANGED <<g, opts, df, chart, ret, corpus, cargs, tokenizer, seqs, batch,
                   model, vlog>>

\* lines 227-349: prune, flatten, open the figure, draw the series and the reference
\* lines, index the nodes, read the x-limits
PlotLayout ==
    /\ pc = "plot_layout"
    /\ LET built == LayoutOf(g, opts, loc.full_metric, loc, chart)
       IN  df' = built.df /\ loc' = built.loc /\ chart' = built.chart
    /\ pc' = "plot_draw"
    /\ UNCHANGED <<err, g, opts, ret, corpus, cargs, tokenizer, seqs, batch, model,
                   vlog>>

\* lines 427-441: the arrows, then the error bars, then return p
PlotDraw ==
    /\ pc = "plot_draw"
    /\ LET drawn == DrawOf(loc, opts, chart)
       IN  /\ chart' = drawn.chart
           /\ IF drawn.err = "none" THEN ret' = TRUE /\ pc' = "done" /\ err' = err
              ELSE Raise(drawn.err) /\ ret' = ret
    /\ UNCHANGED <<g, opts, df, loc, corpus, cargs, tokenizer, seqs, batch, model,
                   vlog>>

NextPlot == PlotAssertFails \/ PlotFullName \/ PlotLayout \/ PlotDraw

SpecPlot == InitPlot /\ [][NextPlot]_vars

(***************************************************************************)
(* A call of visualiser(model, tokenizer, batch_size, seq_len, backward,   *)
(* **plot_kwargs)                                                          *)
(***************************************************************************)
\* example_batch's defaults (lines 74-75) and the length it asks of a text (line 97)
DefaultSeed == 1472
DefaultShuffleBufferSize == 10000
MinSeqLen(seq_len) == seq_len * 4

\* how the model may be called: as visualiser expects, with other parameters, or
\* giving back something other than (output, loss)
ModelInterfaces == {"ok", "other_parameters", "other_result"}

\* model(inputs, labels) with a model of another signature; "_, loss = ..." with
\* another result
CallError(interface) ==
    IF interface = "other_parameters" THEN "TypeError"
    ELSE IF interface = "other_result" THEN "ValueError"
    ELSE "none"

\* tracked_model.scales_graph(): backward metrics exist only after a backward pass
ScalesGraph(m) ==
    IF m.bwd_runs > 0 THEN m.graph
    ELSE [i \in 1..Len(m.graph) |-> [m.graph[i] EXCEPT !.bwd = None]]

VisCorpora ==
    { <<MkText(1, 9), MkText(2, 3), MkText(3, 5)>>, <<MkText(1, 4)>> }

VisGraphs == GraphsOf(0) \cup GraphsOf(1)

VisPlotOptions ==
    {o \in PlotOptions :
        /\ o.prune_same_scale /\ o.show_arrows /\ ~o.show_zero_tensors
        /\ o.xmin = None /\ o.xmax = None}

InitVis ==
    /\ pc = "visualiser" /\ err = "none" /\ ret = FALSE
    /\ g = <<>> /\ df = <<>>
    /\ opts \in VisPlotOptions
    /\ loc = NoLoc /\ chart = NoChart
    /\ corpus \in VisCorpora
    /\ cargs \in [batch_size : 1..MaxBatchSize, min_seq_len : {0}, seq_len : 1..MaxSeqLen,
                  seed : {DefaultSeed}, shuffle_buffer_size : {DefaultShuffleBufferSize},
                  backward : BOOLEAN]
    /\ tokenizer \in [pad_token : PadTokens]
    /\ seqs = <<>> /\ batch = NoBatch
    /\ model \in [interface : ModelInterfaces, device : {"cuda"}, tracked : {FALSE},
                  graph : VisGraphs, fwd_runs : {0}, fwd_args : {<<>>}, bwd_runs : {0}]
    /\ vlog = <<>>

\* lines 96-98: example_batch reads the corpus
VisExampleSeqs ==
    /\ pc = "visualiser"
    /\ seqs' = example_seqs(corpus, cargs.batch_size, MinSeqLen(cargs.seq_len),
                            cargs.seed, cargs.shuffle_buffer_size)
    /\ vlog' = Append(vlog, "load_dataset")
    /\ pc' = "vis_create_batch"
    /\ UNCHANGED <<err, g, opts, df, loc, chart, ret, corpus, cargs, tokenizer, batch,
                   model>>

\* lines 99-103: example_batch builds the batch
VisCreateBatch ==
    /\ pc = "vis_create_batch"
    /\ tokenizer' = WithPadToken(tokenizer)
    /\ vlog' = Append(vlog, "tokenizer")
    /\ IF seqs = <<>>
       THEN Raise("TokenizerError") /\ batch' = batch
       ELSE /\ batch' = create_batch(tokenizer, seqs, cargs.seq_len)
            /\ pc' = "vis_track" /\ err' = err
    /\ UNCHANGED <<g, opts, df, loc, chart, ret, corpus, cargs, seqs, model>>

\* line 511: tracked_model = track_scales(model.to("cpu"))
VisTrack ==
    /\ pc = "vis_track"
    /\ model' = [model EXCEPT !.device = "cpu", !.tracked = TRUE]
    /\ vlog' = vlog \o <<"to_cpu", "track_scales">>
    /\ pc' = "vis_forward"
    /\ UNCHANGED <<err, g, opts, df, loc, chart, ret, corpus, cargs, tokenizer, seqs,
                   batch>>

AfterForwardNoBackward(backward) == "vis_scales_graph"

\* lines 513-514: if backward: loss.backward()
AfterForward(backward) == IF backward THEN "vis_backward" ELSE "vis_scales_graph"

\* line 512: _, loss = tracked_model(inputs, labels)
VisForward ==
    /\ pc = "vis_forward"
    /\ IF model.interface = "other_parameters"
       THEN /\ Raise(CallError(model.interface))
            /\ UNCHANGED <<model, vlog>>
       ELSE /\ model' = [model EXCEPT !.fwd_runs = @ + 1,
                                      !.fwd_args = <<batch.input_idxs, batch.labels>>]
            /\ vlog' = Append(vlog, "forward")
            /\ IF CallError(model.interface) # "none"
               THEN Raise(CallError(model.interface))
               ELSE pc' = AfterForward(cargs.backward) /\ err' = err
    /\ UNCHANGED <<g, opts, df, loc, chart, ret, corpus, cargs, tokenizer, seqs, batch>>

\* line 514: loss.backward()
VisBackward ==
    /\ pc = "vis_backward"
    /\ model' = [model EXCEPT !.bwd_runs = @ + 1]
    /\ vlog' = Append(vlog, "backward")
    /\ pc' = "vis_scales_graph"
    /\ UNCHANGED <<err, g, opts, df, loc, chart, ret, corpus, cargs, tokenizer, seqs,
                   batch>>

\* lines 515-516: graph = tracked_model.scales_graph(); return plot(graph, **plot_kwargs)
VisScalesGraphAndPlot ==
    /\ pc = "vis_scales_graph"
    /\ g' = ScalesGraph(model)
    /\ vlog' = vlog \o <<"scales_graph", "plot">>
    /\ pc' = "plot"
    /\ UNCHANGED <<err, opts, df, loc, chart, ret, corpus, cargs, tokenizer, seqs, batch,
                   model>>

NextVis ==
    \/ VisExampleSeqs \/ VisCreateBatch \/ VisTrack \/ VisForward \/ VisBackward
    \/ VisScalesGraphAndPlot
    \/ PlotAssertFails \/ PlotFullName \/ PlotLayout \/ PlotDraw

SpecVis == InitVis /\ [][NextVis]_vars

(***************************************************************************)
(* Properties of graph_to_dataframe                                        *)
(***************************************************************************)
FlattenDone == pc = "done" /\ ret

\* C1: graph_to_dataframe returns exactly 2 * (node count - 1) rows: the "output"
\* node contributes none, and the k-th other node, in traversal order, contributes
\* row 2k-1 with direction "fwd" immediately followed by row 2k with direction "bwd".
C1_RowCountAndAlternation ==
    FlattenDone =>
        /\ Len(df) = 2 * (Len(g) - 1)
        /\ \A r \in 1..Len(df) : Col(df[r], "layer") # "output"
        /\ \A k \in 1..(Len(g) - 1) :
              /\ Col(df[2 * k - 1], "direction") = "fwd"
              /\ Col(df[2 * k], "direction") = "bwd"
              /\ Col(df[2 * k - 1], "layer") = g[k].clean_name
              /\ Col(df[2 * k], "layer") = g[k].clean_name

C1_Witness == FlattenDone /\ Len(g) = MaxNodes + 1 /\ Len(df) = 2 * MaxNodes

\* C2: in every row the tensor-type label is one of "x", "w", "grad_x", "grad_w";
\* it carries the "grad_" prefix iff the row's direction is "bwd", and its remainder
\* is "w" iff the row's weight flag is true, otherwise "x".
C2_TensorTypeLabel ==
    FlattenDone =>
        \A r \in 1..Len(df) :
            LET bwd == Col(df[r], "direction") = "bwd"
                w == Col(df[r], "weight tensor")
                label == Col(df[r], "tensor type")
            IN  /\ label \in {"x", "w", "grad_x", "grad_w"}
                /\ (label \in {"grad_x", "grad_w"}) <=> bwd
                /\ (label \in {"w", "grad_w"}) <=> w
                /\ Col(df[r], "direction") \in {"fwd", "bwd"}
                /\ w = g[(r + 1) \div 2].requires_grad

C2_Witness ==
    /\ FlattenDone
    /\ \E r \in 1..Len(df) : Col(df[r], "tensor type") = "grad_w"
    /\ \E r \in 1..Len(df) : Col(df[r], "tensor type") = "x"

(***************************************************************************)
(* Properties of batch fabrication                                         *)
(***************************************************************************)
BatchDone == pc = "done" /\ ret /\ batch # NoBatch

\* the padded, truncated token stream the tokenizer returned for the batch
TokenStream == TokenizerCall(WithPadToken(tokenizer), seqs, cargs.seq_len + 1).input_ids

\* C4: _create_batch returns input_ids, attention_mask and labels that all have the
\* shape (batch_size, seq_len), and labels[i] is token i+1 of the row's token stream
\* for every position i < seq_len, also when every text has fewer than seq_len + 1
\* tokens.
C4_BatchShapeAndShift ==
    BatchDone =>
        /\ Shape(batch.input_idxs) = <<Len(seqs), cargs.seq_len>>
        /\ Shape(batch.attn_mask) = <<Len(seqs), cargs.seq_len>>
        /\ Shape(batch.labels) = <<Len(seqs), cargs.seq_len>>
        /\ \A r \in 1..Len(seqs) : \A i \in 1..cargs.seq_len :
              batch.labels[r][i] = TokenStream[r][i + 1]

SeqsDone == pc = "done" /\ ret /\ cargs.seq_len = 0 /\ batch = NoBatch /\ g = <<>>

RECURSIVE AtLeast(_, _)
AtLeast(dataset, min_length) ==
    IF dataset = <<>> THEN <<>>
    ELSE (IF Len(Head(dataset)) >= min_length THEN <<Head(dataset)>> ELSE <<>>)
         \o AtLeast(Tail(dataset), min_length)

\* the shuffled corpus sequences that have at least min_length characters
Survivors ==
    AtLeast(Shuffle(corpus, cargs.seed, cargs.shuffle_buffer_size),
            cargs.min_seq_len)

\* C5: _example_seqs returns the first batch_size sequences, in shuffled order, among
\* the corpus sequences of at least min_length characters (a sequence of exactly
\* min_length characters is a survivor), batch_size of them when there are that many.
C5_FirstSurvivors ==
    SeqsDone =>
        /\ seqs = Take(Survivors, cargs.batch_size)
        /\ \A i \in 1..Len(seqs) : Len(seqs[i]) >= cargs.min_seq_len
        /\ Len(Survivors) >= cargs.batch_size => Len(seqs) = cargs.batch_size

(***************************************************************************)
(* Properties of plot                                                      *)
(***************************************************************************)
PlotReturned == pc = "done" /\ ret /\ chart.figs > 0

\* C3: plot with a metric that is neither a short metric name nor a display name
\* raises an AssertionError before anything else happens: no pruning, no flattening,
\* no figure, no change to the current figure and axes.
C3_InvalidMetricFailsFast ==
    (opts.metric \notin (Range(MetricsNames) \cup Range(MetricsFullNames)) /\ pc # "plot")
        => /\ pc = "raised" /\ err = "AssertionError" /\ ~ret
           /\ chart = NoChart /\ loc = NoLoc /\ df = <<>>

C3_Witness == pc = "raised" /\ err = "AssertionError" /\ opts.metric = "scale" /\ Len(g) > 1

\* the nodes of the plotted graph, other than "output", that have no backward metrics
NoBwdNodes == {i \in 1..Len(loc.g) : loc.g[i].name # "output" /\ loc.g[i].bwd = None}

\* the plotted graph had every node been reached by the backward pass
WithBwd(l) ==
    [l EXCEPT !.g = [i \in 1..Len(l.g) |->
                        IF l.g[i].bwd = None THEN [l.g[i] EXCEPT !.bwd = DSmall]
                        ELSE l.g[i]]]

RECURSIVE OfDirection(_, _)
OfDirection(drawn, direction) ==
    IF drawn = <<>> THEN <<>>
    ELSE (IF Head(drawn).direction = direction THEN <<Head(drawn)>> ELSE <<>>)
         \o OfDirection(Tail(drawn), direction)

HasBwd(name) == NodeByName(loc.g, name).bwd # None

\* C6: a node without backward metrics never causes an error. graph_to_dataframe emits
\* its fwd row and its bwd row, the bwd row with six null metric values; plot draws no
\* backward error bar for it and no backward arrow that has it at either end; its
\* forward error bar is drawn, and the forward arrows are those drawn had every node
\* backward metrics.
C6_MissingBackwardTolerated ==
    /\ err # "AttributeError(NoneType)"
    /\ pc \in {"plot_draw", "done"} =>
          \A i \in NoBwdNodes :
              /\ Col(df[2 * i - 1], "direction") = "fwd"
              /\ Col(df[2 * i], "direction") = "bwd"
              /\ Col(df[2 * i - 1], "layer") = loc.g[i].clean_name
              /\ Col(df[2 * i], "layer") = loc.g[i].clean_name
              /\ \A m \in Range(MetricsFullNames) :
                    Col(df[2 * i], m) = None /\ Col(df[2 * i - 1], m) # None
    /\ PlotReturned =>
          /\ \A b \in Range(chart.bars) : b.direction = "bwd" => HasBwd(b.node)
          /\ \A a \in Range(chart.arrows) :
                a.direction = "bwd" => HasBwd(a.consumer) /\ HasBwd(a.operand)
          /\ opts.show_error_bars =>
                \A i \in NoBwdNodes :
                    \E b \in Range(chart.bars) :
                        /\ b.node = loc.g[i].name /\ b.direction = "fwd"
                        /\ b.x1 = loc.g[i].fwd.abs_min /\ b.x2 = loc.g[i].fwd.abs_max
          /\ OfDirection(chart.arrows, "fwd")
                = OfDirection(ArrowsOf(WithBwd(loc), opts).drawn, "fwd")

C6_Witness ==
    /\ PlotReturned
    /\ \E i \in NoBwdNodes :
          /\ \E a \in Range(chart.arrows) : a.consumer = loc.g[i].name /\ a.direction = "fwd"
          /\ \E b \in Range(chart.bars) : b.node = loc.g[i].name /\ b.direction = "fwd"
          /\ \E j \in 1..Len(loc.g) :
                /\ loc.g[j].name \in Range(loc.g[i].args)
                /\ loc.g[j].bwd # None

\* C9: when plot is given xmin and/or xmax, the chart it returns shows exactly that
\* minimum / maximum x-value, whatever the other options and the graph.
C9_XlimitsApplied ==
    PlotReturned =>
        /\ opts.xmin # None => chart.xlim[1] = opts.xmin
        /\ opts.xmax # None => chart.xlim[2] = opts.xmax

\* the short name a display name stands for
ShortName(metric) ==
    IF metric \in Range(MetricsFullNames)
    THEN MetricsNames[IndexOf(MetricsFullNames, metric)]
    ELSE metric

\* the chart plot(g, metric=<short name>, ...) returns
ShortNameChart ==
    LET o == [opts EXCEPT !.metric = ShortName(opts.metric)]
        built == LayoutOf(g, o, MetricsFullNames[IndexOf(MetricsNames, o.metric)],
                          NoLoc, NoChart)
    IN  DrawOf(built.loc, o, built.chart).chart

\* C10: a display name that passed plot's validation is usable for the whole render:
\* the call completes without error and yields the chart the short name yields.
C10_DisplayNameUsable ==
    (opts.metric \in Range(MetricsFullNames) /\ loc.full_metric # "") =>
        /\ err = "none"
        /\ PlotReturned => chart = ShortNameChart

(***************************************************************************)
(* Properties of the arrows and the rows of plot                           *)
(***************************************************************************)
\* the two drawing loops of plot have ended, by returning or by raising
DrawEnded == chart.figs > 0 /\ pc \in {"done", "raised"}

\* the calls draw_arrow(n, arg, direction) that get to read the metric of both ends
ArrowReads ==
    {j \in Range(ArrowJobs(loc.g)) : j.direction = "bwd" => HasBwd(j.n) /\ HasBwd(j.arg)}

\* the chosen metric of a node of the plotted graph, as recorded
RawX(name, direction) == Directional(NodeByName(loc.g, name), direction)[opts.metric]

NonFinite(x) == x = NaN \/ x = Inf

\* the arrows on the chart between a consumer and an operand, in one direction
ArrowsFor(j) ==
    {a \in Range(chart.arrows) :
        a.consumer = j.n /\ a.operand = j.arg /\ a.direction = j.direction}

\* the end of an arrow that belongs to the consumer / to the operand
ConsumerEnd(a) == IF a.direction = "fwd" THEN a.xy ELSE a.xytext
OperandEnd(a) == IF a.direction = "fwd" THEN a.xytext ELSE a.xy

CleanName(name) == NodeByName(loc.g, name).clean_name

\* C11: during arrow drawing, whenever the chosen metric of the consumer or of its
\* operand is NaN or infinite, that end of the arrow is placed at the minimum visible
\* x-value (min_scale), a warning naming that node is logged, and plot returns without
\* raising.
C11_NonFiniteClampedAndWarned ==
    (DrawEnded /\ opts.show_arrows /\ opts.metric \in Range(MetricsNames)) =>
        \A j \in ArrowReads :
            /\ NonFinite(RawX(j.n, j.direction)) =>
                  /\ pc = "done"
                  /\ CleanName(j.n) \in Range(chart.warnings)
                  /\ \A a \in ArrowsFor(j) : ConsumerEnd(a)[1] = loc.min_scale
            /\ NonFinite(RawX(j.arg, j.direction)) =>
                  /\ pc = "done"
                  /\ CleanName(j.arg) \in Range(chart.warnings)
                  /\ \A a \in ArrowsFor(j) : OperandEnd(a)[1] = loc.min_scale

\* the operand's value makes draw_arrow annotate the arrow with "0"
Marked(j) == IsZero(RawX(j.arg, j.direction)) \/ isnan(RawX(j.arg, j.direction))

ZeroEnded(j) == IsZero(RawX(j.n, j.direction)) \/ IsZero(RawX(j.arg, j.direction))

\* C12 as stated: every arrow with a zero-valued end, consumer or operand, forward or
\* backward, is drawn with that end at the minimum visible x-value; show_zero_tensors
\* decides only whether the arrow carries the label "0".
C12_ZeroArrowAlwaysDrawn ==
    (PlotReturned /\ opts.show_arrows /\ opts.metric \in Range(MetricsNames)) =>
        \A j \in ArrowReads :
            ZeroEnded(j) =>
                /\ ArrowsFor(j) # {}
                /\ \A a \in ArrowsFor(j) :
                      /\ IsZero(RawX(j.n, j.direction)) => ConsumerEnd(a)[1] = loc.min_scale
                      /\ IsZero(RawX(j.arg, j.direction)) => OperandEnd(a)[1] = loc.min_scale
                      /\ a.text = "0" => opts.show_zero_tensors

\* C12 as amended: an arrow whose operand is zero (or NaN) is drawn only when
\* show_zero_tensors is set, and then with the operand's end at the minimum visible
\* x-value and the label "0"; with the flag off it is not drawn at all. An arrow whose
\* consumer is zero and whose operand is neither zero nor NaN is always drawn, its
\* consumer's end at the minimum visible x-value, without a label.
C12_ZeroOperandArrowShownByFlag ==
    (PlotReturned /\ opts.show_arrows /\ opts.metric \in Range(MetricsNames)) =>
        \A j \in ArrowReads :
            ZeroEnded(j) =>
                /\ (Marked(j) /\ ~opts.show_zero_tensors) => ArrowsFor(j) = {}
                /\ (~Marked(j) \/ opts.show_zero_tensors) =>
                      /\ ArrowsFor(j) # {}
                      /\ \A a \in ArrowsFor(j) :
                            /\ IsZero(RawX(j.n, j.direction)) =>
                                  ConsumerEnd(a)[1] = loc.min_scale
                            /\ IsZero(RawX(j.arg, j.direction)) =>
                                  OperandEnd(a)[1] = loc.min_scale
                            /\ a.text = (IF Marked(j) THEN "0" ELSE "")

C12_Witness ==
    /\ PlotReturned /\ opts.show_arrows /\ ~opts.show_zero_tensors
    /\ opts.metric \in Range(MetricsNames)
    /\ \E j \in ArrowReads : IsZero(RawX(j.arg, j.direction)) /\ ArrowsFor(j) = {}
    /\ \E j \in ArrowReads :
          /\ IsZero(RawX(j.n, j.direction))
          /\ \E a \in ArrowsFor(j) : ConsumerEnd(a)[1] = loc.min_scale /\ a.text = ""

\* where draw_arrow places a metric value on the x-axis
PlotX(x) == IF IsZero(x) \/ isnan(x) THEN loc.min_scale ELSE x

\* the point of a node of the plotted graph: (metric in the direction, row index)
PointOf(name, direction) == <<PlotX(RawX(name, direction)), loc.node_idxs[CleanName(name)]>>

\* C13: with show_arrows on, for every node other than "output" and every operand of it
\* that is itself a node, the forward arrow starts at the operand's (forward metric,
\* row index) and has its head at the consumer's; the backward arrow has the two ends
\* exchanged, starting at the consumer's (backward metric, row index) with its head at
\* the operand's, and is drawn in the other of the two direction colours. Every arrow
\* on the chart is such an arrow, and every such pair whose operand is not left out
\* as a zero tensor has its arrow.
C13_ArrowEndpointsAndColours ==
    (PlotReturned /\ opts.show_arrows /\ opts.metric \in Range(MetricsNames)) =>
        /\ \A a \in Range(chart.arrows) :
              /\ a.consumer # "output"
              /\ a.operand \in Range(NodeByName(loc.g, a.consumer).args)
              /\ a.direction = "fwd" =>
                    /\ a.xytext = PointOf(a.operand, "fwd")
                    /\ a.xy = PointOf(a.consumer, "fwd")
                    /\ a.color = 0
              /\ a.direction = "bwd" =>
                    /\ a.xytext = PointOf(a.consumer, "bwd")
                    /\ a.xy = PointOf(a.operand, "bwd")
                    /\ a.color = 1
        /\ \A j \in ArrowReads :
              (~Marked(j) \/ opts.show_zero_tensors) => ArrowsFor(j) # {}

C13_Witness ==
    /\ PlotReturned /\ opts.show_arrows /\ opts.metric \in Range(MetricsNames)
    /\ \E a, b \in Range(chart.arrows) :
          /\ a.direction = "fwd" /\ b.direction = "bwd"
          /\ a.consumer = b.consumer /\ a.operand = b.operand
          /\ a.xy # a.xytext /\ b.xy # b.xytext
          /\ a.xy[1] # a.xytext[1] /\ b.xy[1] # b.xytext[1]
          /\ a.color # b.color

\* the positions, in the plotted graph, of the nodes other than "output"
PlottedNodes == {i \in 1..Len(loc.g) : loc.g[i].name # "output"}

\* the position at which a layer name is first seen
FirstSeen(name) ==
    CHOOSE i \in PlottedNodes :
        /\ loc.g[i].clean_name = name
        /\ \A j \in PlottedNodes : loc.g[j].clean_name = name => i <= j

\* C14: node_idxs is a bijection between the distinct layer names of the nodes of the
\* pruned graph other than "output" and 0..k-1, in first-seen order, where k is the
\* plot height, the number of distinct layer names of the flattened table. So every
\* node other than "output" has a row, two nodes share a row iff they share a layer
\* name, and the y-coordinate of every arrow end and every error bar is a row
\* 0 <= y < plot height (an error bar sits 0.1 above or below its row).
C14_RowIndexBijection ==
    (chart.figs > 0) =>
        LET names == {loc.g[i].clean_name : i \in PlottedNodes}
            k == loc.plot_height
            idx(i) == loc.node_idxs[loc.g[i].clean_name]
        IN  /\ k = Cardinality({Col(df[r], "layer") : r \in 1..Len(df)})
            /\ k = Cardinality(names)
            /\ DOMAIN loc.node_idxs = names
            /\ {loc.node_idxs[n] : n \in names} = 0..(k - 1)
            /\ \A i, j \in PlottedNodes :
                  (idx(i) = idx(j)) <=> (loc.g[i].clean_name = loc.g[j].clean_name)
            /\ \A m, n \in names :
                  (FirstSeen(m) < FirstSeen(n)) <=> (loc.node_idxs[m] < loc.node_idxs[n])
            /\ \A a \in Range(chart.arrows) :
                  a.xy[2] \in 0..(k - 1) /\ a.xytext[2] \in 0..(k - 1)
            /\ \A b \in Range(chart.bars) :
                  \E row \in 0..(k - 1) :
                      /\ row = loc.node_idxs[CleanName(b.node)]
                      /\ b.y10 = 10 * row + (IF b.direction = "fwd" THEN -1 ELSE 1)

C14_Witness ==
    /\ PlotReturned /\ chart.arrows # <<>> /\ chart.bars # <<>>
    /\ \E i, j \in PlottedNodes :
          /\ i # j /\ loc.g[i].clean_name = loc.g[j].clean_name
          /\ loc.plot_height < Cardinality(PlottedNodes)

(***************************************************************************)
(* Properties of visualiser                                                *)
(***************************************************************************)
\* the collaborators visualiser calls, in the order the call to completion makes them
VisOrder(backward) ==
    <<"load_dataset", "tokenizer", "to_cpu", "track_scales", "forward">>
    \o (IF backward THEN <<"backward">> ELSE <<>>)
    \o <<"scales_graph", "plot">>

IsPrefix(s, t) == Len(s) <= Len(t) /\ s = SubSeq(t, 1, Len(s))

Count(s, e) == Cardinality({i \in 1..Len(s) : s[i] = e})

InPlot == pc \in {"plot", "plot_layout", "plot_draw"}

\* C7: visualiser fabricates the batch, wraps the model, runs exactly one forward pass
\* on (inputs, labels), runs a backward pass iff the backward flag is set, retrieves
\* the graph, and calls plot once, last: the graph is never retrieved before the
\* forward pass and the requested backward pass.
C7_VisualiserOrder ==
    /\ IsPrefix(vlog, VisOrder(cargs.backward))
    /\ "forward" \in Range(vlog) =>
          /\ model.tracked /\ model.device = "cpu" /\ model.fwd_runs = 1
          /\ model.fwd_args = <<batch.input_idxs, batch.labels>>
          /\ batch = create_batch(tokenizer, seqs, cargs.seq_len)
    /\ "forward" \notin Range(vlog) => model.fwd_runs = 0 /\ model.bwd_runs = 0
    /\ "scales_graph" \in Range(vlog) =>
          /\ model.fwd_runs = 1
          /\ model.bwd_runs = (IF cargs.backward THEN 1 ELSE 0)
          /\ g = ScalesGraph(model)
    /\ "scales_graph" \notin Range(vlog) => g = <<>> /\ chart = NoChart
    /\ (InPlot \/ pc = "done") => vlog = VisOrder(cargs.backward)
    /\ Count(vlog, "plot") <= 1 /\ chart.figs <= 1

C7_Witness ==
    /\ pc = "done" /\ ret /\ cargs.backward /\ model.bwd_runs = 1
    /\ vlog = VisOrder(TRUE) /\ chart.figs = 1 /\ Len(g) > 1

\* the exceptions a caller error ends the call with: an unrecognised metric name, a
\* model of another call signature
CallerErrorRaised ==
    /\ pc = "raised"
    /\ \/ err = "AssertionError"
       \/ err \in {"TypeError", "ValueError"}

\* C8 as stated: a caller error is raised before any side effect, that is before the
\* corpus is read, the pad token set, the model moved or wrapped, a pass run, or any
\* plot state changed.
C8_CallerErrorBeforeSideEffects ==
    CallerErrorRaised =>
        /\ vlog = <<>> /\ seqs = <<>>
        /\ tokenizer.pad_token # EosToken
        /\ model.device = "cuda" /\ ~model.tracked
        /\ model.fwd_runs = 0 /\ model.bwd_runs = 0
        /\ chart = NoChart

\* C8 as amended: a caller error is raised before any plot state changes, but not
\* before the other side effects. An unrecognised metric name is raised by plot, after
\* the corpus was read, the pad token set, the model moved and wrapped, the forward
\* and the requested backward pass run and the graph retrieved; a model of another
\* signature fails at the forward call, after the corpus was read, the pad token set
\* and the model moved and wrapped, and before any backward pass or graph retrieval.
C8_CallerErrorBeforePlotState ==
    /\ (pc = "raised" /\ err = "AssertionError") =>
          /\ chart = NoChart /\ loc = NoLoc /\ df = <<>> /\ ~ret
          /\ vlog = VisOrder(cargs.backward)
          /\ tokenizer.pad_token # NoToken
          /\ model.device = "cpu" /\ model.tracked /\ model.fwd_runs = 1
          /\ model.bwd_runs = (IF cargs.backward THEN 1 ELSE 0)
    /\ (pc = "raised" /\ err \in {"TypeError", "ValueError"}) =>
          /\ chart = NoChart /\ loc = NoLoc /\ df = <<>> /\ g = <<>> /\ ~ret
          /\ vlog = <<"load_dataset", "tokenizer", "to_cpu", "track_scales">>
                    \o (IF err = "ValueError" THEN <<"forward">> ELSE <<>>)
          /\ tokenizer.pad_token # NoToken
          /\ model.device = "cpu" /\ model.tracked /\ model.bwd_runs = 0
    /\ (opts.metric \notin (Range(MetricsNames) \cup Range(MetricsFullNames)))
          => chart = NoChart /\ pc \notin {"plot_layout", "plot_draw", "done"}

C8_Witness ==
    /\ pc = "raised" /\ err = "AssertionError" /\ cargs.backward
    /\ model.bwd_runs = 1 /\ chart = NoChart

====
